---------------------------- MODULE Spec2Model ----------------------------
(***************************************************************************)
(* SambaAdapter.generate_content_async of the A2Agent demos: the three     *)
(* copies of the adapter (greeting_agent, tool_agent, multi_tool_agent)    *)
(* as one state machine over generate invocations.                         *)
(*                                                                         *)
(* Python values are modelled as follows.                                  *)
(*   - an attribute is Absent, PyNone or Val(x);                           *)
(*   - a str is a sequence of one-character strings, "" is <<>>;           *)
(*   - a list is a sequence; a dict is a sequence of <<key, value>> pairs  *)
(*     in insertion order, tagged [tag |-> "dict"].                        *)
(***************************************************************************)
EXTENDS Integers, Sequences, FiniteSets, TLC

(***************************************************************************)
(* Bounds of the explored inputs.                                          *)
(***************************************************************************)
NumTasks == 2
MaxTurns == 2
MaxParts == 2
MaxTools == 2
MaxDecls == 3
MaxChoices == 2
MaxToolCalls == 2

Tasks == 1..NumTasks

(***************************************************************************)
(* Python attribute values.                                                *)
(***************************************************************************)
Absent == [a |-> "absent"]
PyNone == [a |-> "none"]
Val(x) == [a |-> "val", v |-> x]

\* getattr(obj, name, default): the default only when the attribute is missing.
GetAttr(attr, default) == IF attr = Absent THEN default ELSE attr

\* hasattr(obj, name)
HasAttr(attr) == attr # Absent

\* truth value of a str or list (or None): non-None and non-empty
Truthy(x) == x.a = "val" /\ x.v # <<>>

\* truth value of a plain object (or None): non-None
TruthyObj(x) == x.a = "val"

\* `x or []`
OrEmpty(x) == IF Truthy(x) THEN x.v ELSE <<>>

(***************************************************************************)
(* Request -> messages (the "".join over the truthy part texts).           *)
(***************************************************************************)
\* a join that prepends each later fragment
RECURSIVE JoinReversed(_, _)
JoinReversed(parts, i) ==
    IF i > Len(parts) THEN <<>>
    ELSE IF Truthy(parts[i].text)
         THEN JoinReversed(parts, i + 1) \o parts[i].text.v
         ELSE JoinReversed(parts, i + 1)

RECURSIVE JoinFrom(_, _)
JoinFrom(parts, i) ==
    IF i > Len(parts) THEN <<>>
    ELSE IF Truthy(parts[i].text)
         THEN parts[i].text.v \o JoinFrom(parts, i + 1)
         ELSE JoinFrom(parts, i + 1)

ContentText(c) == JoinFrom(c.parts, 1)

FlattenMessages(contents) ==
    [i \in 1..Len(contents) |->
        [role |-> contents[i].role, content |-> ContentText(contents[i])]]

(***************************************************************************)
(* Request tools -> vendor function-calling schema.                        *)
(***************************************************************************)
\* Schema.to_dict(): the plain mapping of the schema object's fields
ToDict(schema) == [type |-> schema.type, properties |-> schema.properties]

\* tool.function_declarations[0] raises IndexError on an empty list
ToolConvertible(tool) == Len(tool.function_declarations) > 0

\* a conversion that reads the last declaration of a tool
ApiToolLast(tool) ==
    LET d == tool.function_declarations[Len(tool.function_declarations)]
    IN [type |-> "function",
        function |-> [name |-> d.name, description |-> d.description,
                      parameters |-> ToDict(d.parameters)]]

ApiTool(tool) ==
    [type |-> "function",
     function |-> [name |-> tool.function_declarations[1].name,
                   description |-> tool.function_declarations[1].description,
                   parameters |-> ToDict(tool.function_declarations[1].parameters)]]

\* `if llm_request.tools:` guards the loop
ToolsRaise(tools) ==
    Truthy(tools) /\ \E i \in 1..Len(tools.v) : ~ToolConvertible(tools.v[i])

ApiTools(tools) ==
    IF Truthy(tools) THEN [i \in 1..Len(tools.v) |-> ApiTool(tools.v[i])]
    ELSE <<>>

(***************************************************************************)
(* json.loads on the argument alphabet: objects whose keys and values are  *)
(* strings or objects.  A result is [ok, val, next]; next is the index     *)
(* after the parsed text.                                                  *)
(***************************************************************************)
DQ == "\""

ParseFail == [ok |-> FALSE, val |-> <<>>, next |-> 0]

JStr(chars) == [tag |-> "str", val |-> chars]
JDict(items) == [tag |-> "dict", val |-> items]

\* index of the first double quote at or after i, 0 when there is none
RECURSIVE FindQuote(_, _)
FindQuote(s, i) ==
    IF i > Len(s) THEN 0
    ELSE IF s[i] = DQ THEN i
    ELSE FindQuote(s, i + 1)

ParseString(s, i) ==
    IF i > Len(s) \/ s[i] # DQ THEN ParseFail
    ELSE LET j == FindQuote(s, i + 1)
         IN IF j = 0 THEN ParseFail
            ELSE [ok |-> TRUE, val |-> JStr(SubSeq(s, i + 1, j - 1)), next |-> j + 1]

\* d[key] = value on an insertion-ordered dict: a repeated key keeps its place
RECURSIVE DictPut(_, _, _)
DictPut(items, key, value) ==
    IF items = <<>> THEN << <<key, value>> >>
    ELSE IF Head(items)[1] = key THEN << <<key, value>> >> \o Tail(items)
    ELSE <<Head(items)>> \o DictPut(Tail(items), key, value)

RECURSIVE ParseValue(_, _)
RECURSIVE ParseMembers(_, _, _)

ParseMembers(s, i, acc) ==
    LET k == ParseString(s, i)
    IN IF ~k.ok \/ k.next > Len(s) \/ s[k.next] # ":" THEN ParseFail
       ELSE LET v == ParseValue(s, k.next + 1)
            IN IF ~v.ok \/ v.next > Len(s) THEN ParseFail
               ELSE LET items == DictPut(acc, k.val.val, v.val)
                    IN IF s[v.next] = "}"
                       THEN [ok |-> TRUE, val |-> JDict(items), next |-> v.next + 1]
                       ELSE IF s[v.next] = ","
                       THEN ParseMembers(s, v.next + 1, items)
                       ELSE ParseFail

ParseValue(s, i) ==
    IF i > Len(s) THEN ParseFail
    ELSE IF s[i] = DQ THEN ParseString(s, i)
    ELSE IF s[i] = "{"
         THEN IF i + 1 <= Len(s) /\ s[i + 1] = "}"
              THEN [ok |-> TRUE, val |-> JDict(<<>>), next |-> i + 2]
              ELSE ParseMembers(s, i + 1, <<>>)
    ELSE ParseFail

\* json.loads(x): TypeError on None, JSONDecodeError on malformed or trailing text
JsonLoads(x) ==
    IF x.a # "val" THEN ParseFail
    ELSE LET r == ParseValue(x.v, 1)
         IN IF r.ok /\ r.next = Len(x.v) + 1 THEN r ELSE ParseFail

(***************************************************************************)
(* Response -> parts.  `strict` is whether the installed google.genai      *)
(* FunctionCall constructor rejects args that are not a mapping: the       *)
(* repository pins no version of the library, so both are possible.        *)
(***************************************************************************)
JNone == [tag |-> "none", val |-> <<>>]

NoParts == [parts |-> <<>>, log |-> <<>>]

TextPart(text) == [kind |-> "text", text |-> text]

FunctionCallPart(name, args) == [kind |-> "function_call", name |-> name, args |-> args]

\* types.FunctionCall(name=..., args=...) raises a validation error
FunctionCallRaises(args, strict) == strict /\ args.tag = "str"

\* greeting_agent: arguments are attached as they come, default {}
RawArgs(arguments) ==
    IF arguments = Absent THEN JDict(<<>>)
    ELSE IF arguments = PyNone THEN JNone
    ELSE JStr(arguments.v)

\* the body of `for tc in tool_calls` in greeting_agent: bare except, no log
ToolCallBasic(tc, strict) ==
    LET function == GetAttr(tc.function, PyNone)
    IN IF ~TruthyObj(function) THEN NoParts
       ELSE LET fn_name == GetAttr(function.v.name, Val("")).v
                fn_args == RawArgs(function.v.arguments)
            IN IF FunctionCallRaises(fn_args, strict) THEN NoParts
               ELSE [parts |-> <<FunctionCallPart(fn_name, fn_args)>>, log |-> <<>>]

\* a loop body that keeps a malformed tool call, with empty arguments
ToolCallToolKeepsMalformed(tc, strict) ==
    LET function == GetAttr(tc.function, PyNone)
    IN IF ~TruthyObj(function) THEN NoParts
       ELSE LET fn_name == GetAttr(function.v.name, Val("")).v
                loaded == JsonLoads(GetAttr(function.v.arguments, Val(<<"{", "}">>)))
            IN IF ~loaded.ok
               THEN [parts |-> <<FunctionCallPart(fn_name, JDict(<<>>))>>,
                     log |-> <<"Error parsing tool call">>]
               ELSE [parts |-> <<FunctionCallPart(fn_name, loaded.val)>>, log |-> <<>>]

\* the body of `for tc in tool_calls` in tool_agent and multi_tool_agent
ToolCallTool(tc, strict) ==
    LET function == GetAttr(tc.function, PyNone)
    IN IF ~TruthyObj(function) THEN NoParts
       ELSE LET fn_name == GetAttr(function.v.name, Val("")).v
                fn_args_str == GetAttr(function.v.arguments, Val(<<"{", "}">>))
                loaded == JsonLoads(fn_args_str)
            IN IF ~loaded.ok \/ FunctionCallRaises(loaded.val, strict)
               THEN [parts |-> <<>>, log |-> <<"Error parsing tool call">>]
               ELSE [parts |-> <<FunctionCallPart(fn_name, loaded.val)>>, log |-> <<>>]

ToolCallStep(tc, v, strict) ==
    IF v = "basic" THEN ToolCallBasic(tc, strict) ELSE ToolCallTool(tc, strict)

RECURSIVE ToolCallsLoop(_, _, _, _)
ToolCallsLoop(tool_calls, i, v, strict) ==
    IF i > Len(tool_calls) THEN NoParts
    ELSE LET one == ToolCallStep(tool_calls[i], v, strict)
             rest == ToolCallsLoop(tool_calls, i + 1, v, strict)
         IN [parts |-> one.parts \o rest.parts, log |-> one.log \o rest.log]

\* a loop body that emits the tool calls of a choice before its text
ChoiceStepCallsFirst(choice, v, strict) ==
    LET msg == GetAttr(choice.message, PyNone)
    IN IF ~TruthyObj(msg) THEN NoParts
       ELSE LET content_text == GetAttr(msg.v.content, PyNone)
                text == IF Truthy(content_text) THEN <<TextPart(content_text.v)>> ELSE <<>>
                calls == IF HasAttr(msg.v.tool_calls)
                         THEN ToolCallsLoop(OrEmpty(GetAttr(msg.v.tool_calls, Val(<<>>))),
                                            1, v, strict)
                         ELSE NoParts
            IN [parts |-> calls.parts \o text, log |-> calls.log]

\* the body of `for choice in ...`
ChoiceStep(choice, v, strict) ==
    LET msg == GetAttr(choice.message, PyNone)
    IN IF ~TruthyObj(msg) THEN NoParts
       ELSE LET content_text == GetAttr(msg.v.content, PyNone)
                text == IF Truthy(content_text) THEN <<TextPart(content_text.v)>> ELSE <<>>
                calls == IF HasAttr(msg.v.tool_calls)
                         THEN ToolCallsLoop(OrEmpty(GetAttr(msg.v.tool_calls, Val(<<>>))),
                                            1, v, strict)
                         ELSE NoParts
            IN [parts |-> text \o calls.parts, log |-> calls.log]

\* a loop that stops at a choice without message instead of going on
RECURSIVE ChoicesLoopStopsAtMissing(_, _, _, _)
ChoicesLoopStopsAtMissing(choices, i, v, strict) ==
    IF i > Len(choices) THEN NoParts
    ELSE IF ~TruthyObj(GetAttr(choices[i].message, PyNone)) THEN NoParts
    ELSE LET one == ChoiceStep(choices[i], v, strict)
             rest == ChoicesLoopStopsAtMissing(choices, i + 1, v, strict)
         IN [parts |-> one.parts \o rest.parts, log |-> one.log \o rest.log]

RECURSIVE ChoicesLoop(_, _, _, _)
ChoicesLoop(choices, i, v, strict) ==
    IF i > Len(choices) THEN NoParts
    ELSE LET one == ChoiceStep(choices[i], v, strict)
             rest == ChoicesLoop(choices, i + 1, v, strict)
         IN [parts |-> one.parts \o rest.parts, log |-> one.log \o rest.log]

BuildParts(completion, v, strict) ==
    ChoicesLoop(OrEmpty(GetAttr(completion.choices, Val(<<>>))), 1, v, strict)

LlmResponse(parts) == [content |-> [role |-> "model", parts |-> parts], partial |-> FALSE]

\* a payload that names the module constant instead of the adapter's model
CallSambaKwargsDefaultModel(v, model, msgs, tools) ==
    IF v # "basic" /\ tools # <<>>
    THEN [model |-> "Meta-Llama-3.3-70B-Instruct", messages |-> msgs, tools |-> tools,
          tool_choice |-> "auto"]
    ELSE [model |-> "Meta-Llama-3.3-70B-Instruct", messages |-> msgs]

(***************************************************************************)
(* call_samba: the keyword arguments of chat.completions.create.           *)
(***************************************************************************)
CallSambaKwargs(v, model, msgs, tools) ==
    IF v # "basic" /\ tools # <<>>
    THEN [model |-> model, messages |-> msgs, tools |-> tools, tool_choice |-> "auto"]
    ELSE [model |-> model, messages |-> msgs]

(***************************************************************************)
(* The explored inputs.                                                    *)
(***************************************************************************)
MODEL_ID == "Meta-Llama-3.3-70B-Instruct"

ModelIds == {MODEL_ID, "other-model"}

Variants == {"basic", "tool"}

Roles == {"user", "model"}

Hello == <<"H", "e", "l", "l", "o">>

Part(text) == [text |-> text]

Turn(role, parts) == [role |-> role, parts |-> parts]

Fragments == {PyNone, Val(<<>>), Val(<<"a">>), Val(<<"b">>)}

\* the part lists of exactly k parts
PartLists(k) == [1..k -> {Part(f) : f \in Fragments}]

\* the contents of exactly n turns that hold at most k parts in all
RECURSIVE ContentsWith(_, _)
ContentsWith(n, k) ==
    IF n = 0 THEN {<<>>}
    ELSE UNION {{Append(c, Turn(r, p)) :
                    c \in ContentsWith(n - 1, k - j), r \in Roles, p \in PartLists(j)} :
                j \in 0..k}

RichContents == UNION {ContentsWith(n, MaxParts) : n \in 1..MaxTurns}

PCity == [cls |-> "Schema", type |-> "OBJECT", properties |-> << <<"city", "STRING">> >>]
PNone == [cls |-> "Schema", type |-> "OBJECT", properties |-> <<>>]

Decl(name, description, parameters) ==
    [name |-> name, description |-> description, parameters |-> parameters]

GetWeather == Decl("get_weather", "Retrieves the current weather report", PCity)
GetCurrentTime == Decl("get_current_time", "get the current time", PNone)

Decls == {GetWeather, GetCurrentTime}

Tool(decls) == [function_declarations |-> decls]

\* the tool lists of exactly n tools that hold at most k declarations in all
RECURSIVE ToolsWith(_, _)
ToolsWith(n, k) ==
    IF n = 0 THEN {<<>>}
    ELSE UNION {{Append(tl, Tool(d)) :
                    tl \in ToolsWith(n - 1, k - j), d \in [1..j -> Decls]} :
                j \in 0..k}

RichTools == UNION {ToolsWith(n, MaxDecls) : n \in 1..MaxTools}

Req(contents, tools, stream) == [contents |-> contents, tools |-> tools, stream |-> stream]

OneTurn == Val(<<Turn("user", <<Part(Val(<<"a">>))>>)>>)

TwoTurns ==
    Val(<<Turn("user", <<Part(Val(<<"a">>)), Part(PyNone), Part(Val(<<"b">>))>>),
          Turn("model", <<>>)>>)

BaseContents == {PyNone, Val(<<>>), OneTurn, TwoTurns}

BaseTools ==
    {PyNone, Val(<<>>), Val(<<Tool(<<GetWeather, GetCurrentTime>>)>>),
     Val(<<Tool(<<GetCurrentTime>>), Tool(<<>>)>>)}

BaseRequests == {Req(c, tl, s) : c \in BaseContents, tl \in BaseTools, s \in BOOLEAN}

CanonRequest == Req(OneTurn, Val(<<Tool(<<GetWeather>>)>>), FALSE)

RichRequests ==
    {Req(Val(c), PyNone, FALSE) : c \in RichContents}
        \cup {Req(OneTurn, Val(tl), FALSE) : tl \in RichTools}
        \cup {CanonRequest}

\* argument strings: {"c":"N"}, {}, {b and {"c":"N"
ArgsCityNY == <<"{", DQ, "c", DQ, ":", DQ, "N", DQ, "}">>
ArgsEmpty == <<"{", "}">>
ArgsBad == <<"{", "b">>
ArgsCut == <<"{", DQ, "c", DQ, ":", DQ, "N", DQ>>

Function(name, arguments) == [name |-> name, arguments |-> arguments]

ToolCall(function) == [function |-> function]

Message(content, tool_calls) == [content |-> content, tool_calls |-> tool_calls]

Choice(message) == [message |-> message]

Completion(choices) == [choices |-> choices]

CallWeather == ToolCall(Val(Function(Val("get_weather"), Val(ArgsCityNY))))
CallTime == ToolCall(Val(Function(Val("get_current_time"), Val(ArgsEmpty))))
CallBad == ToolCall(Val(Function(Val("get_weather"), Val(ArgsBad))))
CallNoFunction == ToolCall(PyNone)

RichToolCalls == {CallWeather, CallTime, CallBad}

RichTexts == {Val(<<>>), Val(Hello)}

\* the choices that hold exactly j tool calls
ChoicesOf(j) ==
    IF j = 0
    THEN {Choice(PyNone)}
            \cup {Choice(Val(Message(c, tc))) :
                    c \in RichTexts, tc \in {Absent, Val(<<>>)}}
    ELSE {Choice(Val(Message(c, Val(tc)))) : c \in RichTexts, tc \in [1..j -> RichToolCalls]}

\* the choice lists of exactly n choices that hold at most k tool calls in all
RECURSIVE ChoicesWith(_, _)
ChoicesWith(n, k) ==
    IF n = 0 THEN {<<>>}
    ELSE UNION {{Append(cs, ch) : cs \in ChoicesWith(n - 1, k - j), ch \in ChoicesOf(j)} :
                j \in 0..k}

RichCompletions ==
    {Completion(Val(cs)) : cs \in UNION {ChoicesWith(n, MaxToolCalls) : n \in 1..MaxChoices}}

HelloCompletion == Completion(Val(<<Choice(Val(Message(Val(Hello), Absent)))>>))

\* one valid and one malformed tool call beside a text
MixedCompletion ==
    Completion(Val(<<Choice(Val(Message(Val(Hello), Val(<<CallWeather, CallBad>>))))>>))

BaseCompletions ==
    {Completion(Absent), Completion(PyNone), Completion(Val(<<>>)),
     HelloCompletion, MixedCompletion,
     Completion(Val(<<Choice(Absent), Choice(PyNone),
                      Choice(Val(Message(Absent, PyNone))),
                      Choice(Val(Message(Absent,
                            Val(<<ToolCall(Absent), CallNoFunction, CallTime>>))))>>)),
     Completion(Val(<<Choice(Val(Message(PyNone,
            Val(<<ToolCall(Val(Function(Absent, Absent))),
                  ToolCall(Val(Function(Val("get_weather"), PyNone))),
                  ToolCall(Val(Function(Val("get_weather"), Val(ArgsCut))))>>))))>>))}

VendorErrors == {"APIConnectionError", "APITimeoutError"}

(***************************************************************************)
(* State.                                                                  *)
(***************************************************************************)
VARIABLES
    variant,        \* which copy of SambaAdapter the instance is
    self_model,     \* self._model
    self_client,    \* self._client
    pc,             \* per invocation: idle, awaiting, yielded, done, failed
    request,        \* per invocation: llm_request and stream
    messages,       \* per invocation: the local `messages`
    api_tools,      \* per invocation: the local `api_tools`
    worker,         \* per invocation: the to_thread worker running call_samba
    vendor_calls,   \* per invocation: the kwargs of each chat.completions.create
    result,         \* per invocation: what the vendor call returned or raised
    responses,      \* per invocation: the LlmResponse objects yielded
    error,          \* per invocation: the exception the invocation ended with
    log             \* per invocation: the LOG records written

vars == <<variant, self_model, self_client, pc, request, messages, api_tools, worker,
          vendor_calls, result, responses, error, log>>

config == <<variant, self_model, self_client>>

Raised(e) == [a |-> "exc", v |-> e]

\* __init__, at module load: samba_adapter = SambaAdapter(model=MODEL_ID, ...)
Init ==
    /\ variant \in Variants
    /\ self_model \in ModelIds
    /\ self_client = "samba_client"
    /\ pc = [t \in Tasks |-> "idle"]
    /\ request = [t \in Tasks |-> PyNone]
    /\ messages = [t \in Tasks |-> PyNone]
    /\ api_tools = [t \in Tasks |-> PyNone]
    /\ worker = [t \in Tasks |-> "none"]
    /\ vendor_calls = [t \in Tasks |-> <<>>]
    /\ result = [t \in Tasks |-> PyNone]
    /\ responses = [t \in Tasks |-> <<>>]
    /\ error = [t \in Tasks |-> PyNone]
    /\ log = [t \in Tasks |-> <<>>]

\* a validation that only rejects a missing list
ContentsInvalidNoneOnly(req) == req.contents = PyNone

\* `if not llm_request.contents`
ContentsInvalid(req) == ~Truthy(req.contents)

\* the invocation ends with exception e before anything is dispatched
FailEarly(t, req, e) ==
    /\ pc' = [pc EXCEPT ![t] = "failed"]
    /\ error' = [error EXCEPT ![t] = Val(e)]
    /\ request' = [request EXCEPT ![t] = req]

\* a start that waits until no other invocation is at its await
StartBlocking(t, req) ==
    /\ pc[t] = "idle"
    /\ \A u \in Tasks : pc[u] # "awaiting"
    /\ IF ContentsInvalid(req)
       THEN /\ FailEarly(t, req, "ValueError")
            /\ UNCHANGED <<messages, api_tools, worker>>
       ELSE IF variant # "basic" /\ ToolsRaise(req.tools)
       THEN /\ FailEarly(t, req, "IndexError")
            /\ messages' = [messages EXCEPT ![t] = Val(FlattenMessages(req.contents.v))]
            /\ UNCHANGED <<api_tools, worker>>
       ELSE /\ pc' = [pc EXCEPT ![t] = "awaiting"]
            /\ request' = [request EXCEPT ![t] = req]
            /\ messages' = [messages EXCEPT ![t] = Val(FlattenMessages(req.contents.v))]
            /\ api_tools' = [api_tools EXCEPT ![t] =
                    IF variant = "basic" THEN PyNone ELSE Val(ApiTools(req.tools))]
            /\ worker' = [worker EXCEPT ![t] = "queued"]
            /\ UNCHANGED error
    /\ UNCHANGED <<config, vendor_calls, result, responses, log>>

\* a conversion that leaves out a tool without declarations
StartSkipsEmptyTools(t, req) ==
    /\ pc[t] = "idle"
    /\ IF ContentsInvalid(req)
       THEN /\ FailEarly(t, req, "ValueError")
            /\ UNCHANGED <<messages, api_tools, worker>>
       ELSE /\ pc' = [pc EXCEPT ![t] = "awaiting"]
            /\ request' = [request EXCEPT ![t] = req]
            /\ messages' = [messages EXCEPT ![t] = Val(FlattenMessages(req.contents.v))]
            /\ api_tools' = [api_tools EXCEPT ![t] =
                    IF variant = "basic" \/ ~Truthy(req.tools) THEN Val(<<>>)
                    ELSE Val(ApiTools(Val(SelectSeq(req.tools.v, ToolConvertible))))]
            /\ worker' = [worker EXCEPT ![t] = "queued"]
            /\ UNCHANGED error
    /\ UNCHANGED <<config, vendor_calls, result, responses, log>>

\* generate_content_async up to its await: validation, messages, tools, to_thread
Start(t, req) ==
    /\ pc[t] = "idle"
    /\ IF ContentsInvalid(req)
       THEN /\ FailEarly(t, req, "ValueError")
            /\ UNCHANGED <<messages, api_tools, worker>>
       ELSE IF variant # "basic" /\ ToolsRaise(req.tools)
       THEN /\ FailEarly(t, req, "IndexError")
            /\ messages' = [messages EXCEPT ![t] = Val(FlattenMessages(req.contents.v))]
            /\ UNCHANGED <<api_tools, worker>>
       ELSE /\ pc' = [pc EXCEPT ![t] = "awaiting"]
            /\ request' = [request EXCEPT ![t] = req]
            /\ messages' = [messages EXCEPT ![t] = Val(FlattenMessages(req.contents.v))]
            /\ api_tools' = [api_tools EXCEPT ![t] =
                    IF variant = "basic" THEN PyNone ELSE Val(ApiTools(req.tools))]
            /\ worker' = [worker EXCEPT ![t] = "queued"]
            /\ UNCHANGED error
    /\ UNCHANGED <<config, vendor_calls, result, responses, log>>

\* a worker that reads the messages and tools from a slot kept on the adapter
WorkerCallShared(t) ==
    LET u == CHOOSE x \in Tasks : messages[x] # PyNone
    IN /\ worker[t] = "queued"
       /\ worker' = [worker EXCEPT ![t] = "running"]
       /\ vendor_calls' = [vendor_calls EXCEPT ![t] =
               Append(@, CallSambaKwargs(variant, self_model, messages[u].v,
                                         IF variant = "basic" THEN <<>> ELSE api_tools[u].v))]
       /\ UNCHANGED <<config, pc, request, messages, api_tools, result, responses, error, log>>

\* the worker thread runs call_samba: chat.completions.create is entered
WorkerCall(t) ==
    /\ worker[t] = "queued"
    /\ worker' = [worker EXCEPT ![t] = "running"]
    /\ vendor_calls' = [vendor_calls EXCEPT ![t] =
            Append(@, CallSambaKwargs(variant, self_model, messages[t].v,
                                      IF variant = "basic" THEN <<>> ELSE api_tools[t].v))]
    /\ UNCHANGED <<config, pc, request, messages, api_tools, result, responses, error, log>>

\* the vendor call returns a completion
VendorReturn(t, completion) ==
    /\ worker[t] = "running"
    /\ worker' = [worker EXCEPT ![t] = "returned"]
    /\ result' = [result EXCEPT ![t] = Val(completion)]
    /\ UNCHANGED <<config, pc, request, messages, api_tools, vendor_calls, responses,
                   error, log>>

\* the vendor call raises
VendorRaise(t, e) ==
    /\ worker[t] = "running"
    /\ worker' = [worker EXCEPT ![t] = "raised"]
    /\ result' = [result EXCEPT ![t] = Raised(e)]
    /\ UNCHANGED <<config, pc, request, messages, api_tools, vendor_calls, responses,
                   error, log>>

\* a handler that logs and yields an empty response instead of raising
ResumeRaisedSuppressed(t) ==
    /\ log' = [log EXCEPT ![t] = Append(@, "SambaNova call failed")]
    /\ responses' = [responses EXCEPT ![t] = Append(@, LlmResponse(<<>>))]
    /\ pc' = [pc EXCEPT ![t] = "yielded"]
    /\ UNCHANGED <<worker, error>>

\* a handler that logs and dispatches the vendor call again
ResumeRaisedRetry(t) ==
    /\ log' = [log EXCEPT ![t] = Append(@, "SambaNova call failed")]
    /\ worker' = [worker EXCEPT ![t] = "queued"]
    /\ UNCHANGED <<pc, responses, error>>

\* `except Exception`: LOG.exception, then raise
ResumeRaised(t) ==
    /\ log' = [log EXCEPT ![t] = Append(@, "SambaNova call failed")]
    /\ error' = [error EXCEPT ![t] = Val(result[t].v)]
    /\ pc' = [pc EXCEPT ![t] = "failed"]
    /\ UNCHANGED <<worker, responses>>

\* a response step that yields inside the loop: one response per choice
ResumeReturnedPerChoice(t, strict) ==
    LET choices == OrEmpty(GetAttr(result[t].v.choices, Val(<<>>)))
        each == [i \in 1..Len(choices) |->
                    LlmResponse(ChoiceStep(choices[i], variant, strict).parts)]
    IN /\ responses' = [responses EXCEPT ![t] = @ \o each]
       /\ pc' = [pc EXCEPT ![t] = "yielded"]
       /\ UNCHANGED <<worker, error, log>>

\* the parts are built and the one LlmResponse is yielded
ResumeReturned(t, strict) ==
    LET built == BuildParts(result[t].v, variant, strict)
    IN /\ log' = [log EXCEPT ![t] = @ \o built.log]
       /\ responses' = [responses EXCEPT ![t] = Append(@, LlmResponse(built.parts))]
       /\ pc' = [pc EXCEPT ![t] = "yielded"]
       /\ UNCHANGED <<worker, error>>

\* an await that gives up on a call that is still running
ResumeWithTimeout(t, strict) ==
    /\ pc[t] = "awaiting"
    /\ worker[t] \in {"running", "returned", "raised"}
    /\ IF worker[t] = "running"
       THEN /\ error' = [error EXCEPT ![t] = Val("TimeoutError")]
            /\ pc' = [pc EXCEPT ![t] = "failed"]
            /\ UNCHANGED <<worker, responses, log>>
       ELSE IF worker[t] = "raised" THEN ResumeRaised(t) ELSE ResumeReturned(t, strict)
    /\ UNCHANGED <<config, request, messages, api_tools, vendor_calls, result>>

\* the await completes once the worker is through
Resume(t, strict) ==
    /\ pc[t] = "awaiting"
    /\ worker[t] \in {"returned", "raised"}
    /\ IF worker[t] = "raised" THEN ResumeRaised(t) ELSE ResumeReturned(t, strict)
    /\ UNCHANGED <<config, request, messages, api_tools, vendor_calls, result>>

\* the consumer asks for the next item: the generator body ends after its yield
Finish(t) ==
    /\ pc[t] = "yielded"
    /\ pc' = [pc EXCEPT ![t] = "done"]
    /\ UNCHANGED <<config, request, messages, api_tools, worker, vendor_calls, result,
                   responses, error, log>>

(***************************************************************************)
(* One invocation, task 1, over the explored inputs: every request shape   *)
(* on every adapter, the larger request and completion families on the     *)
(* adapter built at module load.                                           *)
(***************************************************************************)
IsCanonAdapter == variant = "tool" /\ self_model = MODEL_ID

RequestsFor == IF IsCanonAdapter THEN BaseRequests \cup RichRequests ELSE BaseRequests

AllCompletions == BaseCompletions \cup RichCompletions

CompletionsFor(req) ==
    IF req = CanonRequest THEN (IF IsCanonAdapter THEN AllCompletions ELSE BaseCompletions)
    ELSE IF req \in BaseRequests THEN BaseCompletions
    ELSE {HelloCompletion, MixedCompletion}

\* an invocation begins on one of the explored requests
Generate(t) == pc[t] = "idle" /\ \E req \in RequestsFor : Start(t, req)

\* the vendor answers with one of the explored completions
VendorReturns(t) ==
    worker[t] = "running" /\ \E c \in CompletionsFor(request[t]) : VendorReturn(t, c)

\* the vendor call fails with one of the explored errors
VendorRaises(t) == \E e \in VendorErrors : VendorRaise(t, e)

\* the invocation resumes, on either behaviour of the FunctionCall constructor
Resumes(t) == \E strict \in BOOLEAN : Resume(t, strict)

Next ==
    \/ Generate(1)
    \/ WorkerCall(1)
    \/ VendorReturns(1)
    \/ VendorRaises(1)
    \/ Resumes(1)
    \/ Finish(1)

Spec == Init /\ [][Next]_vars

(***************************************************************************)
(* Several invocations on the one adapter instance, interleaved at their   *)
(* awaits and with their worker threads, over a small set of requests and  *)
(* completions that differ from each other.                                *)
(***************************************************************************)
ConcRequests ==
    {Req(Val(<<>>), PyNone, FALSE),
     Req(OneTurn, PyNone, FALSE),
     Req(TwoTurns, Val(<<Tool(<<GetWeather, GetCurrentTime>>)>>), FALSE)}

ConcCompletions == {HelloCompletion, MixedCompletion}

GenerateConc(t) == pc[t] = "idle" /\ \E req \in ConcRequests : Start(t, req)

VendorReturnsConc(t) ==
    worker[t] = "running" /\ \E c \in ConcCompletions : VendorReturn(t, c)

NextConc ==
    \E t \in Tasks :
        \/ GenerateConc(t)
        \/ WorkerCall(t)
        \/ VendorReturnsConc(t)
        \/ VendorRaises(t)
        \/ Resumes(t)
        \/ Finish(t)

SpecConc == Init /\ [][NextConc]_vars

(***************************************************************************)
(* The same invocations under the scheduling the program runs with: the    *)
(* thread pool runs a queued worker, the event loop resumes a generator    *)
(* whose awaited worker is through, and the vendor call is taken to        *)
(* complete.  The requests carry no tools, the completions text only.      *)
(***************************************************************************)
LiveRequests == {Req(Val(<<>>), PyNone, FALSE), Req(OneTurn, PyNone, FALSE)}

LiveCompletions == {HelloCompletion, Completion(Absent)}

GenerateLive(t) == pc[t] = "idle" /\ \E req \in LiveRequests : Start(t, req)

VendorReturnsLive(t) ==
    worker[t] = "running" /\ \E c \in LiveCompletions : VendorReturn(t, c)

VendorCompletes(t) == VendorReturnsLive(t) \/ VendorRaises(t)

NextLive ==
    \E t \in Tasks :
        \/ GenerateLive(t)
        \/ WorkerCall(t)
        \/ VendorCompletes(t)
        \/ Resumes(t)
        \/ Finish(t)

SpecLive ==
    /\ Init
    /\ [][NextLive]_vars
    /\ \A t \in Tasks :
          WF_vars(WorkerCall(t)) /\ WF_vars(VendorCompletes(t)) /\ WF_vars(Resumes(t))

(***************************************************************************)
(* Properties.                                                            *)
(***************************************************************************)
Started(t) == request[t] # PyNone

Yielded(t) == pc[t] \in {"yielded", "done"}

EmptyContents(t) == request[t].contents = PyNone \/ request[t].contents = Val(<<>>)

\* C1: an invocation whose request has an empty or absent contents list has failed
\* with ValueError, has built no messages and no tool list, has dispatched no worker,
\* has made no vendor call and has yielded no response.
C1_EmptyRequestRejected ==
    \A t \in Tasks :
        Started(t) /\ EmptyContents(t) =>
            /\ pc[t] = "failed"
            /\ error[t] = Val("ValueError")
            /\ messages[t] = PyNone
            /\ api_tools[t] = PyNone
            /\ worker[t] = "none"
            /\ vendor_calls[t] = <<>>
            /\ responses[t] = <<>>

C1_Witness ==
    \E t \in Tasks : Started(t) /\ request[t].contents = Val(<<>>) /\ pc[t] = "failed"

\* the length a part contributes to its turn's content
FragLen(part) == IF part.text = PyNone THEN 0 ELSE Len(part.text.v)

\* the number of characters the parts before part j contribute
RECURSIVE Offset(_, _)
Offset(parts, j) == IF j <= 1 THEN 0 ELSE Offset(parts, j - 1) + FragLen(parts[j - 1])

\* content holds each text fragment at its place, in order, and nothing else
IsConcat(content, parts) ==
    /\ Len(content) = Offset(parts, Len(parts) + 1)
    /\ \A j \in 1..Len(parts) :
          \A i \in 1..FragLen(parts[j]) :
              content[Offset(parts, j) + i] = parts[j].text.v[i]

\* C2: the messages of every vendor call are as many as the request's turns, in
\* their order; message i has the role of turn i and as content the text fragments
\* of turn i one after the other, without separator ("" for a turn without text).
C2_MessagesFlattened ==
    \A t \in Tasks :
        \A k \in 1..Len(vendor_calls[t]) :
            LET sent == vendor_calls[t][k].messages
                turns == request[t].contents.v
            IN /\ Len(sent) = Len(turns)
               /\ \A i \in 1..Len(turns) :
                     /\ sent[i].role = turns[i].role
                     /\ IsConcat(sent[i].content, turns[i].parts)

C2_Witness ==
    \E t \in Tasks :
        /\ vendor_calls[t] # <<>>
        /\ request[t].contents = TwoTurns
        /\ vendor_calls[t][1].messages =
              <<[role |-> "user", content |-> <<"a", "b">>],
                [role |-> "model", content |-> <<>>]>>

\* C3: once the vendor call of an invocation has raised, the invocation yields no
\* response; when it resumes it has logged the failure and has failed with the very
\* exception the vendor call raised.
C3_VendorFailurePropagates ==
    \A t \in Tasks :
        worker[t] = "raised" =>
            /\ responses[t] = <<>>
            /\ pc[t] \in {"awaiting", "failed"}
            /\ pc[t] = "failed" =>
                  /\ error[t] = Val(result[t].v)
                  /\ log[t] = <<"SambaNova call failed">>

C3_Witness ==
    \E t \in Tasks :
        /\ worker[t] = "raised"
        /\ pc[t] = "failed"
        /\ error[t] = Val("APITimeoutError")

\* the request passes validation and every supplied tool has a declaration
Convertible(t) ==
    /\ ~EmptyContents(t)
    /\ request[t].tools \in {PyNone, Val(<<>>)}
          \/ \A i \in 1..Len(request[t].tools.v) :
                request[t].tools.v[i].function_declarations # <<>>

\* C4: an invocation never makes more than one vendor call, and an invocation that
\* has ended (by a response or a failure) on a valid request with convertible tools
\* has made exactly one.
C4_OneVendorCall ==
    \A t \in Tasks :
        /\ Len(vendor_calls[t]) <= 1
        /\ Started(t) /\ pc[t] \in {"yielded", "done", "failed"} /\ Convertible(t)
              => Len(vendor_calls[t]) = 1

C4_Witness ==
    \E t \in Tasks :
        /\ pc[t] = "failed"
        /\ worker[t] = "raised"
        /\ Len(vendor_calls[t]) = 1

\* the tool calls of a completion, choice after choice
RECURSIVE AllToolCalls(_)
AllToolCalls(choices) ==
    IF choices = <<>> THEN <<>>
    ELSE LET m == Head(choices).message
             here == IF m.a = "val" /\ m.v.tool_calls.a = "val" THEN m.v.tool_calls.v
                     ELSE <<>>
         IN here \o AllToolCalls(Tail(choices))

ChoicesOfResult(t) ==
    IF result[t].v.choices.a = "val" THEN result[t].v.choices.v ELSE <<>>

\* the argument text json.loads is given: "{}" when the attribute is missing
ArgumentText(tc) ==
    IF tc.function.v.arguments = Absent THEN Val(ArgsEmpty) ELSE tc.function.v.arguments

HasFunction(tc) == tc.function.a = "val"

Parses(tc) == HasFunction(tc) /\ JsonLoads(ArgumentText(tc)).ok

Malformed(tc) == HasFunction(tc) /\ ~JsonLoads(ArgumentText(tc)).ok

HasText(choice) ==
    /\ choice.message.a = "val"
    /\ choice.message.v.content.a = "val"
    /\ choice.message.v.content.v # <<>>

IsCall(part) == part.kind = "function_call"

IsText(part) == part.kind = "text"

PartsOf(t) == responses[t][1].content.parts

\* C5: in the tool-enabled adapter a successful vendor response always leads to a
\* response, malformed tool-call arguments included: its function_call parts are
\* the tool calls whose arguments parse, by name and in order, its text parts are
\* the non-empty contents in order, and each malformed tool call left one error
\* record in the log and no part.
C5_MalformedToolCallDropped ==
    \A t \in Tasks :
        variant = "tool" /\ worker[t] = "returned" /\ pc[t] # "awaiting" =>
            LET calls == AllToolCalls(ChoicesOfResult(t))
                good == SelectSeq(calls, Parses)
                bad == SelectSeq(calls, Malformed)
                texts == SelectSeq(ChoicesOfResult(t), HasText)
                callParts == SelectSeq(PartsOf(t), IsCall)
                textParts == SelectSeq(PartsOf(t), IsText)
            IN /\ Yielded(t)
               /\ error[t] = PyNone
               /\ Len(callParts) = Len(good)
               /\ \A i \in 1..Len(good) :
                     callParts[i].name = GetAttr(good[i].function.v.name, Val("")).v
               /\ Len(textParts) = Len(texts)
               /\ \A i \in 1..Len(texts) :
                     textParts[i].text = texts[i].message.v.content.v
               /\ Len(log[t]) = Len(bad)

C5_Witness ==
    \E t \in Tasks :
        /\ variant = "tool"
        /\ Yielded(t)
        /\ result[t] = Val(MixedCompletion)
        /\ PartsOf(t) =
              <<TextPart(Hello),
                FunctionCallPart("get_weather", JDict(<< << <<"c">>, JStr(<<"N">>) >> >>))>>

\* C6: in every adapter variant the arguments of every function_call part of a
\* yielded response are a mapping parsed from the vendor's argument string.
C6_ArgsAlwaysParsed ==
    \A t \in Tasks :
        \A r \in 1..Len(responses[t]) :
            \A p \in 1..Len(responses[t][r].content.parts) :
                LET part == responses[t][r].content.parts[p]
                IN IsCall(part) => part.args.tag = "dict"

SuppliesTools(t) == request[t].tools \notin {PyNone, Val(<<>>)}

\* C7: the keyword arguments of every vendor call hold tools and tool_choice = "auto"
\* exactly when the request supplied at least one tool, and otherwise hold the model
\* and the messages only.
C7_ToolsIffSupplied ==
    \A t \in Tasks :
        \A k \in 1..Len(vendor_calls[t]) :
            LET kwargs == vendor_calls[t][k]
            IN IF SuppliesTools(t)
               THEN /\ DOMAIN kwargs = {"model", "messages", "tools", "tool_choice"}
                    /\ kwargs.tool_choice = "auto"
               ELSE DOMAIN kwargs = {"model", "messages"}

\* C8: in the tool-enabled adapter, a vendor call for a request with n tools carries
\* n tool entries in the request's order, each of type "function" with the name,
\* description and parameters of its tool's first function declaration.
C8_FirstDeclarationPerTool ==
    \A t \in Tasks :
        \A k \in 1..Len(vendor_calls[t]) :
            variant = "tool" /\ SuppliesTools(t) =>
                LET sent == vendor_calls[t][k].tools
                    given == request[t].tools.v
                IN /\ Len(sent) = Len(given)
                   /\ \A i \in 1..Len(given) :
                         LET first == given[i].function_declarations[1]
                         IN /\ sent[i].type = "function"
                            /\ DOMAIN sent[i] = {"type", "function"}
                            /\ sent[i].function.name = first.name
                            /\ sent[i].function.description = first.description
                            /\ sent[i].function.parameters.type = first.parameters.type
                            /\ sent[i].function.parameters.properties
                                  = first.parameters.properties

C8_Witness ==
    \E t \in Tasks :
        /\ variant = "tool"
        /\ vendor_calls[t] # <<>>
        /\ request[t].tools =
              Val(<<Tool(<<GetCurrentTime, GetWeather>>), Tool(<<GetWeather>>)>>)
        /\ vendor_calls[t][1].tools[1].function.name = "get_current_time"
        /\ vendor_calls[t][1].tools[2].function.name = "get_weather"

\* C9: an invocation whose vendor call returned yields exactly one response when it
\* resumes and none after it: the response has role "model" and is not partial,
\* whatever the stream flag and the number of choices; without choices its part
\* list is empty.  No invocation ever yields more than one response.
C9_ExactlyOneResponse ==
    \A t \in Tasks :
        /\ Len(responses[t]) <= 1
        /\ worker[t] = "returned" /\ pc[t] # "awaiting" =>
              /\ Yielded(t)
              /\ Len(responses[t]) = 1
              /\ responses[t][1].content.role = "model"
              /\ responses[t][1].partial = FALSE
              /\ ChoicesOfResult(t) = <<>> => PartsOf(t) = <<>>

C9_Witness ==
    \E t \in Tasks :
        /\ pc[t] = "done"
        /\ request[t].stream = TRUE
        /\ result[t] = Val(Completion(Val(<<>>)))
        /\ responses[t] = <<[content |-> [role |-> "model", parts |-> <<>>],
                             partial |-> FALSE]>>

\* the reference part of a tool call that has a function and parseable arguments
RefCallPart(tc) ==
    FunctionCallPart(GetAttr(tc.function.v.name, Val("")).v, JsonLoads(ArgumentText(tc)).val)

\* the reference parts of one choice: its text if any, then its parseable tool calls
RefChoiceParts(choice) ==
    LET good == SelectSeq(AllToolCalls(<<choice>>), Parses)
    IN (IF HasText(choice) THEN <<TextPart(choice.message.v.content.v)>> ELSE <<>>)
          \o [i \in 1..Len(good) |-> RefCallPart(good[i])]

RECURSIVE RefParts(_)
RefParts(choices) ==
    IF choices = <<>> THEN <<>>
    ELSE RefParts(SubSeq(choices, 1, Len(choices) - 1))
            \o RefChoiceParts(choices[Len(choices)])

\* C10: in the tool-enabled adapter the part list of the yielded response is, for
\* each choice in order, a text part with the content when the content is non-empty,
\* followed by one function_call part for each tool call, in order, that has a
\* function and parseable arguments; one choice with content "Hello" and no tool
\* calls gives the single text part "Hello".
C10_PartsEqualReference ==
    \A t \in Tasks :
        variant = "tool" /\ Yielded(t) =>
            /\ PartsOf(t) = RefParts(ChoicesOfResult(t))
            /\ result[t] = Val(HelloCompletion) => PartsOf(t) = <<TextPart(Hello)>>

C10_Witness ==
    \E t \in Tasks :
        /\ variant = "tool"
        /\ Yielded(t)
        /\ result[t] =
              Val(Completion(Val(<<Choice(Val(Message(Val(Hello), Val(<<CallTime>>)))),
                                   Choice(Val(Message(Val(Hello), Val(<<CallBad>>))))>>)))
        /\ PartsOf(t) =
              <<TextPart(Hello), FunctionCallPart("get_current_time", JDict(<<>>)),
                TextPart(Hello)>>

\* a message without the tool calls that have no function
PruneMessage(msg) ==
    IF msg.tool_calls.a = "val"
    THEN Message(msg.content, Val(SelectSeq(msg.tool_calls.v, HasFunction)))
    ELSE msg

HasMessage(choice) == choice.message.a = "val"

\* a choice list without the choices that have no message
PruneChoices(choices) ==
    LET kept == SelectSeq(choices, HasMessage)
    IN [i \in 1..Len(kept) |-> Choice(Val(PruneMessage(kept[i].message.v)))]

\* C11: in the tool-enabled adapter a successful vendor response with missing or
\* null fields never makes the invocation fail: it yields its response, and the
\* parts are those of the same response with the choices without message and the
\* tool calls without function taken out; an absent or null choices list, a message
\* without content and a message without (or with a null) tool-call list give no
\* part of their kind.
C11_MissingFieldsSkipped ==
    \A t \in Tasks :
        variant = "tool" /\ worker[t] = "returned" /\ pc[t] # "awaiting" =>
            LET choices == ChoicesOfResult(t)
            IN /\ Yielded(t)
               /\ error[t] = PyNone
               /\ PartsOf(t) =
                     BuildParts(Completion(Val(PruneChoices(choices))), "tool", FALSE).parts
               /\ result[t].v.choices.a # "val" => PartsOf(t) = <<>>
               /\ (\A i \in 1..Len(choices) : ~HasText(choices[i]))
                     => SelectSeq(PartsOf(t), IsText) = <<>>
               /\ AllToolCalls(choices) = <<>> => SelectSeq(PartsOf(t), IsCall) = <<>>

C11_Witness ==
    \E t \in Tasks :
        /\ variant = "tool"
        /\ Yielded(t)
        /\ Len(ChoicesOfResult(t)) = 4
        /\ ~HasMessage(ChoicesOfResult(t)[1])
        /\ ~HasMessage(ChoicesOfResult(t)[2])
        /\ ChoicesOfResult(t)[3].message.v.tool_calls = PyNone
        /\ \E i \in 1..Len(AllToolCalls(ChoicesOfResult(t))) :
              ~HasFunction(AllToolCalls(ChoicesOfResult(t))[i])
        /\ PartsOf(t) = <<FunctionCallPart("get_current_time", JDict(<<>>))>>

\* the payload the code builds from a request alone
OwnPayload(t) ==
    CallSambaKwargs(variant, self_model, FlattenMessages(request[t].contents.v),
                    IF variant = "basic" THEN <<>> ELSE ApiTools(request[t].tools))

\* the responses the code builds from a vendor result alone
OwnResponses(t) ==
    {LlmResponse(BuildParts(result[t].v, variant, strict).parts) : strict \in BOOLEAN}

\* C12: with several invocations interleaved on one adapter, every invocation's
\* messages and vendor payload are the ones built from its own request, and the
\* response it yields is the one built from its own vendor result, whatever the
\* other invocations have been given.
C12_InvocationsIsolated ==
    \A t \in Tasks :
        /\ messages[t] # PyNone => messages[t] = Val(FlattenMessages(request[t].contents.v))
        /\ vendor_calls[t] # <<>> => vendor_calls[t] = <<OwnPayload(t)>>
        /\ responses[t] # <<>> =>
              /\ Len(responses[t]) = 1
              /\ result[t].a = "val"
              /\ responses[t][1] \in OwnResponses(t)

C12_Witness ==
    \E t, u \in Tasks :
        /\ t # u
        /\ pc[t] = "yielded"
        /\ pc[u] = "awaiting"
        /\ worker[u] = "returned"
        /\ request[t] # request[u]
        /\ result[t] # result[u]
        /\ vendor_calls[t] # vendor_calls[u]
        /\ responses[t] # <<>>

\* the vendor call of an invocation is pending
Pending(t) == pc[t] = "awaiting" /\ worker[t] \in {"queued", "running"}

\* the next step of an invocation, whichever it is, can be taken
CanStep(u) ==
    /\ pc[u] = "idle" => ENABLED GenerateConc(u)
    /\ worker[u] = "queued" => ENABLED WorkerCall(u)
    /\ worker[u] = "running" => ENABLED VendorReturnsConc(u) /\ ENABLED VendorRaises(u)
    /\ pc[u] = "awaiting" /\ worker[u] = "raised" => ENABLED Resumes(u)
    /\ pc[u] = "yielded" => ENABLED Finish(u)

C14_ConfigurationFixed ==
    /\ [][config' = config]_vars
    /\ [](\A t \in Tasks : \A i \in 1..Len(vendor_calls[t]) :
             vendor_calls[t][i].model = self_model)

C14_Witness ==
    \E t, u \in Tasks :
        /\ self_model = "other-model"
        /\ self_client = "samba_client"
        /\ pc[t] = "done"
        /\ pc[u] = "failed"
        /\ worker[u] = "raised"
        /\ vendor_calls[t][1].model = "other-model"
        /\ vendor_calls[u][1].model = "other-model"

\* the invocation has yielded its response or failed
Ended(t) == pc[t] \in {"yielded", "done", "failed"}

\* C15: once the vendor call is taken to complete, an invocation with a valid
\* request that is at its await eventually ends; an invocation past its await has
\* a worker that returned or raised; and while the worker has not completed, no
\* step of the program takes the invocation out of its await.
C15_EndsIffVendorCompletes ==
    /\ \A t \in Tasks : (pc[t] = "awaiting") ~> Ended(t)
    /\ [](\A t \in Tasks :
             Ended(t) /\ worker[t] # "none" => worker[t] \in {"returned", "raised"})
    /\ [][\A t \in Tasks : Pending(t) => pc'[t] = "awaiting" /\ ~Ended(t)']_vars

C15_Witness ==
    \E t, u \in Tasks :
        /\ t # u
        /\ pc[t] = "yielded"
        /\ worker[t] = "returned"
        /\ ~ContentsInvalid(request[t])
        /\ pc[u] = "failed"
        /\ worker[u] = "raised"

\* a tool of the request has no function declaration
HasEmptyTool(t) ==
    /\ request[t].tools.a = "val"
    /\ \E i \in 1..Len(request[t].tools.v) :
          request[t].tools.v[i].function_declarations = <<>>

\* C16: in the tool-enabled adapter an invocation with contents and with a tool that
\* has zero function declarations has failed with IndexError during the tool
\* conversion: no tool list was built, no worker was dispatched, no vendor call was
\* made and no response was yielded, whatever the other tools are.
C16_EmptyToolFailsBeforeCall ==
    \A t \in Tasks :
        variant = "tool" /\ Started(t) /\ ~EmptyContents(t) /\ HasEmptyTool(t) =>
            /\ pc[t] = "failed"
            /\ error[t] = Val("IndexError")
            /\ api_tools[t] = PyNone
            /\ worker[t] = "none"
            /\ vendor_calls[t] = <<>>
            /\ responses[t] = <<>>

C16_Witness ==
    \E t \in Tasks :
        /\ variant = "tool"
        /\ Started(t)
        /\ HasEmptyTool(t)
        /\ \E i \in 1..Len(request[t].tools.v) : ToolConvertible(request[t].tools.v[i])
        /\ error[t] = Val("IndexError")
        /\ vendor_calls[t] = <<>>
        /\ responses[t] = <<>>

=============================================================================
